---- MODULE Spec2Model ----
(***************************************************************************)
(* Model of phon3x-art.py: the payload framer (_prepare_data /             *)
(* _extract_data), the password-seeded fallback embedding and extraction   *)
(* engines, the OutGuess delegation paths and the embed menu.              *)
(*                                                                         *)
(* Bytes are integers 0..255 and byte strings are sequences of them.       *)
(* Unsigned 32-bit quantities (struct '>II', zlib.crc32) are kept as their *)
(* four big-endian bytes, since they do not fit the checker's integers.    *)
(* The library primitives (AES, PBKDF2, SHA-256, numpy's generator, the    *)
(* JPEG codec) are stood for by small functions with the same interface    *)
(* and the same algebraic role: a keyed block bijection in CBC mode, a     *)
(* digest of the password bytes, a seeded bijection on 0..N-1 and a lossy  *)
(* re-encoding.  CRC-32 and PKCS7 are computed exactly.                    *)
(***************************************************************************)
EXTENDS Integers, Sequences, FiniteSets, TLC

(* ------------------------------------------------------------------ *)
(* Program constants                                                   *)
(* ------------------------------------------------------------------ *)
BLOCK_SIZE == 16
IV_LEN == 16
HEADER_LEN == 8
KEY_LEN == 32
SEED_LEN == 8
BYTE_BITS == 8
ECC_REPEAT == 2
CHANNELS == 3
NUM_OFFSETS == 8
BIT_POS == 1
DEFAULT_QUALITY == 90
MIN_QUALITY == 75
MAX_QUALITY == 95

Byte == 0..255

(* ------------------------------------------------------------------ *)
(* Byte arithmetic                                                     *)
(* ------------------------------------------------------------------ *)
BitOf(x, k) == (x \div k) % 2

XorBit(a, b) == (a + b) % 2

XorByte(a, b) ==
    XorBit(BitOf(a, 1), BitOf(b, 1))
  + 2 * XorBit(BitOf(a, 2), BitOf(b, 2))
  + 4 * XorBit(BitOf(a, 4), BitOf(b, 4))
  + 8 * XorBit(BitOf(a, 8), BitOf(b, 8))
  + 16 * XorBit(BitOf(a, 16), BitOf(b, 16))
  + 32 * XorBit(BitOf(a, 32), BitOf(b, 32))
  + 64 * XorBit(BitOf(a, 64), BitOf(b, 64))
  + 128 * XorBit(BitOf(a, 128), BitOf(b, 128))

XorBytes(s, t) == [i \in 1..Len(s) |-> XorByte(s[i], t[i])]

Xor4(s, t) ==
    <<XorByte(s[1], t[1]), XorByte(s[2], t[2]), XorByte(s[3], t[3]), XorByte(s[4], t[4])>>

(* struct.pack('>I', n) for the lengths the model reaches (n < 2^16). *)
PackU32(n) == <<0, 0, n \div 256, n % 256>>

(* ------------------------------------------------------------------ *)
(* zlib.crc32: reflected CRC-32, polynomial 0xEDB88320, as big-endian  *)
(* bytes <<b3, b2, b1, b0>>.                                           *)
(* ------------------------------------------------------------------ *)
CRC_POLY == <<237, 184, 131, 32>>

CrcShr(c) ==
    <<c[1] \div 2,
      (c[2] \div 2) + 128 * (c[1] % 2),
      (c[3] \div 2) + 128 * (c[2] % 2),
      (c[4] \div 2) + 128 * (c[3] % 2)>>

RECURSIVE CrcRounds(_, _)
CrcRounds(c, n) ==
    IF n = 0 THEN c
    ELSE IF c[4] % 2 = 1 THEN CrcRounds(Xor4(CrcShr(c), CRC_POLY), n - 1)
    ELSE CrcRounds(CrcShr(c), n - 1)

RECURSIVE CrcUpdate(_, _, _)
CrcUpdate(c, data, i) ==
    IF i > Len(data) THEN c
    ELSE CrcUpdate(CrcRounds(<<c[1], c[2], c[3], XorByte(c[4], data[i])>>, BYTE_BITS),
                   data, i + 1)

Crc32(data) ==
    Xor4(CrcUpdate(<<255, 255, 255, 255>>, data, 1), <<255, 255, 255, 255>>)

(* ------------------------------------------------------------------ *)
(* Crypto.Util.Padding.pad / unpad (PKCS7).  A failure of a library    *)
(* call is a result with ok = FALSE and the exception's name in err.   *)
(* ------------------------------------------------------------------ *)
Ok(v) == [ok |-> TRUE, val |-> v, err |-> ""]
Raise(e) == [ok |-> FALSE, val |-> <<>>, err |-> e]

(* Variant: pads to the next block boundary and adds nothing to data that
   already ends on one. *)
PadToBoundary(data) ==
    LET padding_len == (BLOCK_SIZE - (Len(data) % BLOCK_SIZE)) % BLOCK_SIZE
    IN data \o [i \in 1..padding_len |-> padding_len]

Pad(data) ==
    LET padding_len == BLOCK_SIZE - (Len(data) % BLOCK_SIZE)
    IN data \o [i \in 1..padding_len |-> padding_len]

Unpad(padded) ==
    LET pdata_len == Len(padded)
        padding_len == padded[pdata_len]
    IN IF pdata_len = 0 THEN Raise("ValueError")
       ELSE IF pdata_len % BLOCK_SIZE # 0 THEN Raise("ValueError")
       ELSE IF padding_len < 1 \/ padding_len > BLOCK_SIZE THEN Raise("ValueError")
       ELSE IF \E i \in (pdata_len - padding_len + 1)..pdata_len : padded[i] # padding_len
            THEN Raise("ValueError")
       ELSE Ok(SubSeq(padded, 1, pdata_len - padding_len))

(* ------------------------------------------------------------------ *)
(* Digests of the password bytes: stand-ins for hashlib.sha256 and     *)
(* hashlib.pbkdf2_hmac, total on every byte string, the empty one      *)
(* included.                                                           *)
(* ------------------------------------------------------------------ *)
RECURSIVE Absorb(_, _, _)
Absorb(h, data, j) ==
    IF j > Len(data) THEN h
    ELSE Absorb((h * 33 + data[j] + 1) % 65521, data, j + 1)

Digest(data, salt, n) ==
    LET h == Absorb(salt, data, 1)
    IN [i \in 1..n |-> (h * (2 * i + 1) + 7 * i * i + (h \div 256)) % 256]

Sha256(data) == Digest(data, 5381, 32)

Pbkdf2(password) == Digest(password, 1597, KEY_LEN)

(* ------------------------------------------------------------------ *)
(* AES-256 in CBC mode.  The block cipher is stood for by a keyed      *)
(* bijection on 16-byte blocks; the chaining is CBC's.                 *)
(* ------------------------------------------------------------------ *)
Rot(i) == (i % BLOCK_SIZE) + 1

EncBlock(key, b) ==
    [i \in 1..BLOCK_SIZE |->
        (167 * XorByte(b[Rot(i)], key[i]) + key[BLOCK_SIZE + i]) % 256]

DecBlock(key, c) ==
    LET u == [i \in 1..BLOCK_SIZE |->
                XorByte((23 * ((c[i] + 256 - key[BLOCK_SIZE + i]) % 256)) % 256, key[i])]
    IN [j \in 1..BLOCK_SIZE |-> u[IF j = 1 THEN BLOCK_SIZE ELSE j - 1]]

BlockAt(data, k) == SubSeq(data, (k - 1) * BLOCK_SIZE + 1, k * BLOCK_SIZE)

RECURSIVE CbcEncrypt(_, _, _, _)
CbcEncrypt(key, prev, pt, k) ==
    IF k > Len(pt) \div BLOCK_SIZE THEN <<>>
    ELSE LET c == EncBlock(key, XorBytes(BlockAt(pt, k), prev))
         IN c \o CbcEncrypt(key, c, pt, k + 1)

(* One block of cipher.decrypt: D(c) xor the previous ciphertext block. *)
RECURSIVE CbcBlocks(_, _, _, _)
CbcBlocks(key, prev, ct, k) ==
    IF k > Len(ct) \div BLOCK_SIZE THEN <<>>
    ELSE LET c == BlockAt(ct, k)
             d == SubSeq(DecBlock(key, c), 1, BLOCK_SIZE)
         IN SubSeq(XorBytes(d, prev), 1, BLOCK_SIZE) \o CbcBlocks(key, c, ct, k + 1)

CbcDecrypt(key, iv, ct) ==
    IF Len(ct) % BLOCK_SIZE # 0 THEN Raise("ValueError")
    ELSE Ok(CbcBlocks(key, iv, ct, 1))

(* _aes_encrypt: the IV is the cipher object's fresh random IV. *)
AesEncrypt(key, iv, data) == <<iv, CbcEncrypt(key, iv, Pad(data), 1)>>

(* _aes_decrypt: unpad(cipher.decrypt(ct)); either call may raise. *)
AesDecrypt(key, iv, ct) ==
    LET d == CbcDecrypt(key, iv, ct)
    IN IF d.ok THEN Unpad(d.val) ELSE d

(* ------------------------------------------------------------------ *)
(* The payload framer                                                  *)
(* ------------------------------------------------------------------ *)
NoPayload == [some |-> FALSE, data |-> <<>>, raised |-> FALSE]
Payload(d) == [some |-> TRUE, data |-> d, raised |-> FALSE]
Raised == [some |-> FALSE, data |-> <<>>, raised |-> TRUE]

(* _prepare_data *)
PrepareData(key, iv, secret_data) ==
    LET length == Len(secret_data)
        crc == Crc32(secret_data)
        metadata == PackU32(length) \o crc
        payload == metadata \o secret_data
        enc == AesEncrypt(key, iv, payload)
    IN enc[1] \o enc[2]

(* len(decrypted) >= 8 + length, with length the u32 in decrypted[0:4] *)
LengthFits(decrypted) ==
    /\ decrypted[1] = 0
    /\ decrypted[2] = 0
    /\ Len(decrypted) >= HEADER_LEN + decrypted[3] * 256 + decrypted[4]

(* Variant: the try block without the checksum comparison. *)
ExtractDataTryNoCrc(key, raw_data) ==
    LET iv == SubSeq(raw_data, 1, IV_LEN)
        encrypted == SubSeq(raw_data, IV_LEN + 1, Len(raw_data))
        dec == AesDecrypt(key, iv, encrypted)
        decrypted == dec.val
        length == decrypted[3] * 256 + decrypted[4]
        data == SubSeq(decrypted, HEADER_LEN + 1, HEADER_LEN + length)
    IN IF ~dec.ok THEN Raised
       ELSE IF Len(decrypted) >= HEADER_LEN /\ LengthFits(decrypted)
            THEN Payload(data)
       ELSE NoPayload

(* The body of _extract_data's try block. *)
ExtractDataTry(key, raw_data) ==
    LET iv == SubSeq(raw_data, 1, IV_LEN)
        encrypted == SubSeq(raw_data, IV_LEN + 1, Len(raw_data))
        dec == AesDecrypt(key, iv, encrypted)
        decrypted == dec.val
        length == decrypted[3] * 256 + decrypted[4]
        expected_crc == SubSeq(decrypted, 5, 8)
        data == SubSeq(decrypted, HEADER_LEN + 1, HEADER_LEN + length)
    IN IF ~dec.ok THEN Raised
       ELSE IF Len(decrypted) >= HEADER_LEN /\ LengthFits(decrypted)
                /\ Crc32(data) = expected_crc
            THEN Payload(data)
       ELSE NoPayload

(* Variant: _extract_data without the except clause. *)
ExtractDataUncaught(key, raw_data) ==
    IF Len(raw_data) < IV_LEN THEN NoPayload
    ELSE ExtractDataTry(key, raw_data)

(* _extract_data *)
ExtractData(key, raw_data) ==
    IF Len(raw_data) < IV_LEN THEN NoPayload
    ELSE LET r == ExtractDataTry(key, raw_data)
         IN IF r.raised THEN NoPayload ELSE r

(* ------------------------------------------------------------------ *)
(* Key material (__init__)                                             *)
(* ------------------------------------------------------------------ *)
(* self.key *)
DeriveKey(password) == Pbkdf2(password)

(* self.seed: the first 8 digest bytes, read big-endian. *)
DeriveSeed(password) == SubSeq(Sha256(password), 1, SEED_LEN)

(* Variant: the high four bytes. *)
SeedHigh32(seed) == SubSeq(seed, 1, 4)

(* self.seed % (2**32): the low four bytes of the big-endian integer. *)
SeedMod32(seed) == SubSeq(seed, SEED_LEN - 3, SEED_LEN)

(* ------------------------------------------------------------------ *)
(* numpy's global generator: np.random.seed sets its state,            *)
(* np.random.permutation draws from the state and advances it.         *)
(* ------------------------------------------------------------------ *)
RECURSIVE Gcd(_, _)
Gcd(a, b) == IF b = 0 THEN a ELSE Gcd(b, a % b)

RECURSIVE NextCoprime(_, _)
NextCoprime(m, n) == IF Gcd(m, n) = 1 THEN m ELSE NextCoprime(m + 1, n)

RngSeed(seed32) == Absorb(0, seed32, 1)

RngAdvance(state) == (state * 75 + 74) % 65537

(* A bijection on 0..n-1 determined by the generator state. *)
RngPermutation(state, n) ==
    LET m == NextCoprime(1 + (state % 251), n)
    IN [p \in 1..n |-> (m * (p - 1) + state) % n]

(* ------------------------------------------------------------------ *)
(* The fallback engine's pure steps                                    *)
(* ------------------------------------------------------------------ *)
Pow2(k) == IF k = 0 THEN 1 ELSE IF k = 1 THEN 2 ELSE IF k = 2 THEN 4 ELSE IF k = 3 THEN 8
           ELSE IF k = 4 THEN 16 ELSE IF k = 5 THEN 32 ELSE IF k = 6 THEN 64 ELSE 128

(* Variant: the bits of each byte taken least significant first. *)
EccBitsLsbFirst(prepared_data) ==
    [j \in 1..(Len(prepared_data) * BYTE_BITS * ECC_REPEAT) |->
        LET b == (j - 1) \div ECC_REPEAT
            byte == prepared_data[(b \div BYTE_BITS) + 1]
        IN BitOf(byte, Pow2(b % BYTE_BITS))]

(* f'{byte:08b}' joined, then each bit repeated twice. *)
EccBits(prepared_data) ==
    [j \in 1..(Len(prepared_data) * BYTE_BITS * ECC_REPEAT) |->
        LET b == (j - 1) \div ECC_REPEAT
            byte == prepared_data[(b \div BYTE_BITS) + 1]
        IN BitOf(byte, Pow2(BYTE_BITS - 1 - (b % BYTE_BITS)))]

(* (pixel_val >> 1) & 1 *)
SecondLsb(pixel_val) == (pixel_val \div Pow2(BIT_POS)) % 2

(* Variant: the body flipping the least significant bit. *)
WriteBitLsb(flat_pixels, indices, bits, p) ==
    LET idx == indices[p] + 1
        pixel_val == flat_pixels[idx]
    IN IF SecondLsb(pixel_val) # bits[p]
       THEN [flat_pixels EXCEPT ![idx] = XorByte(pixel_val, 1)]
       ELSE flat_pixels

(* One pass of the write loop's body at position p of the permutation. *)
WriteBit(flat_pixels, indices, bits, p) ==
    LET idx == indices[p] + 1
        pixel_val == flat_pixels[idx]
    IN IF SecondLsb(pixel_val) # bits[p]
       THEN [flat_pixels EXCEPT ![idx] = XorByte(pixel_val, Pow2(BIT_POS))]
       ELSE flat_pixels

(* The write loop over positions lo..hi in ascending order: the range is
   split in two, the lower half is applied first and the upper half to its
   result (the loop writes in place, so the array keeps its length). *)
RECURSIVE WriteRange(_, _, _, _, _)
WriteRange(flat_pixels, indices, bits, lo, hi) ==
    IF lo > hi THEN flat_pixels
    ELSE IF lo = hi THEN WriteBit(flat_pixels, indices, bits, lo)
    ELSE LET mid == (lo + hi) \div 2
             lower == WriteRange(flat_pixels, indices, bits, lo, mid)
         IN IF Len(lower) = Len(flat_pixels)
            THEN WriteRange(lower, indices, bits, mid + 1, hi)
            ELSE lower

(* for idx in indices: if bit_index >= len(bits): break ... *)
WriteLoop(flat_pixels, indices, bits) ==
    WriteRange(flat_pixels, indices, bits, 1,
               IF Len(bits) < Len(indices) THEN Len(bits) ELSE Len(indices))

(* extracted_bits *)
ReadBits(flat_pixels, indices) ==
    [p \in 1..Len(indices) |-> SecondLsb(flat_pixels[indices[p] + 1])]

(* Variant: 1 only when both bits of the pair are 1. *)
EccDecodeBoth(extracted_bits) ==
    [k \in 1..(Len(extracted_bits) \div ECC_REPEAT) |->
        IF extracted_bits[2 * k - 1] + extracted_bits[2 * k] >= 2 THEN 1 ELSE 0]

(* error_corrected_bits *)
EccDecode(extracted_bits) ==
    [k \in 1..(Len(extracted_bits) \div ECC_REPEAT) |->
        IF extracted_bits[2 * k - 1] + extracted_bits[2 * k] >= 1 THEN 1 ELSE 0]

(* Variant: the bytes from offset 0 whatever the offset. *)
BytesAtZero(ec_bits, offset) ==
    [k \in 1..(Len(ec_bits) \div BYTE_BITS) |->
        LET i == BYTE_BITS * (k - 1)
        IN 128 * ec_bits[i + 1] + 64 * ec_bits[i + 2] + 32 * ec_bits[i + 3]
           + 16 * ec_bits[i + 4] + 8 * ec_bits[i + 5] + 4 * ec_bits[i + 6]
           + 2 * ec_bits[i + 7] + ec_bits[i + 8]]

(* bytes_list at one alignment offset *)
BytesAt(ec_bits, offset) ==
    LET n == IF Len(ec_bits) >= offset THEN (Len(ec_bits) - offset) \div BYTE_BITS ELSE 0
    IN [k \in 1..n |->
          LET i == offset + BYTE_BITS * (k - 1)
          IN 128 * ec_bits[i + 1] + 64 * ec_bits[i + 2] + 32 * ec_bits[i + 3]
             + 16 * ec_bits[i + 4] + 8 * ec_bits[i + 5] + 4 * ec_bits[i + 6]
             + 2 * ec_bits[i + 7] + ec_bits[i + 8]]

(* ------------------------------------------------------------------ *)
(* The JPEG codec: what Image.open decodes from a file written by      *)
(* save(..., 'JPEG', quality=q).  Either every sample survives the     *)
(* re-encoding or the samples come back requantised.                   *)
(* ------------------------------------------------------------------ *)
Requantise(v) == IF 8 * ((v + 4) \div 8) > 255 THEN 255 ELSE 8 * ((v + 4) \div 8)

JpegDecoded(pixels, lossy) ==
    IF lossy THEN [i \in 1..Len(pixels) |-> Requantise(pixels[i])] ELSE pixels

(* ------------------------------------------------------------------ *)
(* Bounds and input sets                                               *)
(* ------------------------------------------------------------------ *)
MaxEmbeds == 1
MaxTmpFiles == 1

P1 == <<112, 49>>
P2 == <<112, 50>>
Hi == <<104, 105>>
Eight == <<1, 2, 3, 4, 5, 6, 7, 8>>

(* F5Steganography(password, quality) as called directly. *)
ConstructArgs == {<<P1, 90>>, <<P2, 100>>, <<<<>>, 90>>}
(* The password and the quality typed into the embed menu. *)
MenuArgs == {<<P1, 50>>, <<P1, 90>>}
Secrets == {<<>>, Hi, Eight}
(* get_random_bytes(16) *)
IvA == [i \in 1..IV_LEN |-> (37 * i) % 256]
IvB == [i \in 1..IV_LEN |-> (11 * i + 5) % 256]
IVs == {IvA, IvB}
(* width and height of the cover image, and whether outguess is installed *)
Environments == {<<171, 1, FALSE>>, <<16, 16, FALSE>>, <<171, 1, TRUE>>}
CoverPath == "cover.jpg"
StegoPath == "stego.jpg"
Paths == {CoverPath, StegoPath}

(* ------------------------------------------------------------------ *)
(* State                                                               *)
(* ------------------------------------------------------------------ *)
VARIABLES
    fs,         \* the image files: path -> file
    tmp,        \* the temporary data files that exist
    outguess,   \* whether `which outguess` finds the tool
    stego,      \* the F5Steganography object in use
    rng,        \* numpy's global generator state
    pc,         \* "idle", "embed" / "extract" inside a call that has its arguments,
                \* "align" inside extract_fallback's offset loop
    loop,       \* extract_fallback's locals while in the loop
    embeds,     \* embed calls made so far
    written,    \* history: path -> the successful embed that last wrote it
    call,       \* what the last call did (its arguments and locals)
    ret         \* the last call's return value

vars == <<fs, tmp, outguess, stego, rng, pc, loop, embeds, written, call, ret>>

NoFile == [exists |-> FALSE, w |-> 0, h |-> 0, px |-> <<>>, og |-> <<>>]
ImageFile(w, h, px, og) == [exists |-> TRUE, w |-> w, h |-> h, px |-> px, og |-> og]

CoverPixels(w, h) == [i \in 1..(w * h * CHANNELS) |-> (7 * i + w) % 256]

NoSession == [live |-> FALSE, password |-> <<>>, quality |-> 0, key |-> <<>>,
              seed |-> <<>>, use_outguess |-> FALSE]

NoLoop == [extracted_bits |-> <<>>, ec_bits |-> <<>>, offset |-> 0]

NoEmbed == [engine |-> "none", password |-> <<>>, secret |-> <<>>]

NoPaths == [p \in {} |-> NoFile]

NoCall == [op |-> "none", prepared |-> <<>>, iv |-> <<>>, secret |-> <<>>,
           indices |-> <<>>, after |-> <<>>, cover_path |-> "", output_path |-> "",
           stego_path |-> "", fs_before |-> NoPaths, raw |-> <<>>, data |-> NoPayload,
           tried |-> <<>>, tool |-> "", tmp_made |-> 0,
           quality |-> 0, seed32 |-> <<>>, stderr |-> <<>>, tool_runs |-> 0]

NoRet == [op |-> "none", ok |-> FALSE, data |-> NoPayload, msg |-> "",
          needed |-> 0, available |-> 0, diag |-> <<>>]

Init ==
    /\ \E env \in Environments :
         /\ fs = [p \in Paths |->
                    IF p = CoverPath
                    THEN ImageFile(env[1], env[2], CoverPixels(env[1], env[2]), <<>>)
                    ELSE NoFile]
         /\ outguess = env[3]
    /\ tmp = {}
    /\ stego = NoSession
    /\ rng = 0
    /\ pc = "idle"
    /\ loop = NoLoop
    /\ embeds = 0
    /\ written = [p \in Paths |-> NoEmbed]
    /\ call = NoCall
    /\ ret = NoRet

(* ------------------------------------------------------------------ *)
(* F5Steganography.__init__                                            *)
(* ------------------------------------------------------------------ *)
(* Variant: key and seed that do not depend on the password. *)
NewObjectOneKey(password, quality, found) ==
    [live |-> TRUE, password |-> password, quality |-> quality,
     key |-> DeriveKey(<<>>), seed |-> DeriveSeed(<<>>),
     use_outguess |-> found]

NewObject(password, quality, found) ==
    [live |-> TRUE, password |-> password, quality |-> quality,
     key |-> DeriveKey(password), seed |-> DeriveSeed(password),
     use_outguess |-> found]

Construct(password, quality) ==
    /\ pc = "idle"
    /\ stego' = NewObject(password, quality, outguess)
    /\ call' = [NoCall EXCEPT !.op = "__init__"]
    /\ ret' = [NoRet EXCEPT !.op = "__init__", !.ok = TRUE]
    /\ UNCHANGED <<fs, tmp, outguess, rng, pc, loop, embeds, written>>

ConstructCall ==
    \E args \in ConstructArgs : Construct(args[1], args[2])

(* ------------------------------------------------------------------ *)
(* embed_fallback                                                      *)
(* ------------------------------------------------------------------ *)
(* Variant: a call that leaves the generator in the state it was in. *)
NpRandomSeedIgnored(state, seed32) == state

(* np.random.seed(x): the generator's state becomes a function of x alone. *)
NpRandomSeed(state, seed32) == RngSeed(seed32)

(* Variant: the check with >= in place of >. *)
CapacityExceededOrMet(total_bits_needed, available_bits) ==
    total_bits_needed >= available_bits

(* if total_bits_needed > available_bits *)
CapacityExceeded(total_bits_needed, available_bits) ==
    total_bits_needed > available_bits

EmbedFallback(self, cover_path, secret_data, output_path) ==
    \E iv \in IVs :
      LET prepared_data == PrepareData(self.key, iv, secret_data)
          bits == EccBits(prepared_data)
          img == fs[cover_path]
          total_bits_needed == Len(bits)
          available_bits == img.w * img.h * CHANNELS
          seed32 == SeedMod32(self.seed)
          seeded == NpRandomSeed(rng, seed32)
          indices == RngPermutation(seeded, available_bits)
          flat_pixels == WriteLoop(img.px, indices, bits)
          made == [NoCall EXCEPT !.op = "embed_fallback", !.prepared = prepared_data,
                      !.iv = iv, !.secret = secret_data,
                      !.cover_path = cover_path, !.output_path = output_path,
                      !.fs_before = fs]
      IN /\ tmp' = tmp
         /\ pc' = "idle"
         /\ IF ~img.exists
            THEN \* Image.open raises: the except clause returns the failure
                 /\ ret' = [NoRet EXCEPT !.op = "embed_fallback",
                                         !.msg = "Fallback embedding failed"]
                 /\ call' = made
                 /\ UNCHANGED <<fs, rng, written>>
            ELSE IF CapacityExceeded(total_bits_needed, available_bits)
            THEN /\ ret' = [NoRet EXCEPT !.op = "embed_fallback",
                                         !.msg = "Insufficient capacity",
                                         !.needed = total_bits_needed,
                                         !.available = available_bits]
                 /\ call' = made
                 /\ UNCHANGED <<fs, rng, written>>
            ELSE /\ rng' = RngAdvance(seeded)
                 /\ \E lossy \in BOOLEAN :
                      fs' = [fs EXCEPT ![output_path] =
                               ImageFile(img.w, img.h, JpegDecoded(flat_pixels, lossy), <<>>)]
                 /\ written' = [written EXCEPT ![output_path] =
                                  [engine |-> "fallback", password |-> self.password,
                                   secret |-> secret_data]]
                 /\ call' = [made EXCEPT !.indices = indices, !.after = flat_pixels,
                                         !.seed32 = seed32, !.quality = self.quality]
                 /\ ret' = [NoRet EXCEPT !.op = "embed_fallback", !.ok = TRUE,
                                         !.msg = "Fallback embedding successful"]

(* ------------------------------------------------------------------ *)
(* embed_with_outguess.  The tool's run is one of: exit status 0 with  *)
(* the output image written, a non-zero exit status, or an exception   *)
(* raised by subprocess.run before the tool ran.                       *)
(* ------------------------------------------------------------------ *)
ToolRuns == {"exit0", "nonzero", "raise"}

(* result.stderr: the text the tool wrote, as a sequence of characters. *)
Stderrs == {<<>>, <<"\n">>, <<" ", "b", "a", "d", "\n">>}

Whitespace == {" ", "\t", "\n", "\r"}

(* str.strip() *)
RECURSIVE LStrip(_)
LStrip(text) ==
    IF Len(text) > 0 /\ text[1] \in Whitespace THEN LStrip(Tail(text)) ELSE text

RECURSIVE RStrip(_)
RStrip(text) ==
    IF Len(text) > 0 /\ text[Len(text)] \in Whitespace
    THEN RStrip(SubSeq(text, 1, Len(text) - 1))
    ELSE text

Strip(text) == RStrip(LStrip(text))

UnknownError == <<"U", "n", "k", "n", "o", "w", "n", " ", "e", "r", "r", "o", "r">>

(* Variant: the fixed text whatever the tool wrote. *)
ErrorMsgFixed(stderr) == UnknownError

(* error_msg = result.stderr.strip() if result.stderr else "Unknown error" *)
ErrorMsg(stderr) == IF Len(stderr) > 0 THEN Strip(stderr) ELSE UnknownError

(* tempfile.NamedTemporaryFile(delete=False): a name not in use *)
FreshTmp == Cardinality(tmp) + 1

EmbedWithOutguess(self, cover_path, secret_data, output_path, run) ==
    \E iv \in IVs :
      LET prepared_data == PrepareData(self.key, iv, secret_data)
          img == fs[cover_path]
          data_path == FreshTmp
          made == [NoCall EXCEPT !.op = "embed_with_outguess", !.prepared = prepared_data,
                      !.iv = iv, !.secret = secret_data,
                      !.cover_path = cover_path, !.output_path = output_path,
                      !.fs_before = fs, !.tool = run, !.tmp_made = data_path,
                      !.tool_runs = 1]
      IN /\ run = "exit0" => img.exists
         /\ run = "raise" => Cardinality(tmp) < MaxTmpFiles
         /\ rng' = rng
         /\ pc' = "idle"
         /\ IF run = "raise"
            THEN \* the temporary file was written and closed; the except clause returns
                 /\ tmp' = tmp \cup {data_path}
                 /\ UNCHANGED <<fs, written>>
                 /\ call' = made
                 /\ ret' = [NoRet EXCEPT !.op = "embed_with_outguess",
                                         !.msg = "OutGuess error"]
            ELSE \* os.unlink(data_path)
                 /\ tmp' = (tmp \cup {data_path}) \ {data_path}
                 /\ IF run = "exit0"
                    THEN /\ fs' = [fs EXCEPT ![output_path] =
                                     ImageFile(img.w, img.h, img.px,
                                               <<self.password, prepared_data>>)]
                         /\ written' = [written EXCEPT ![output_path] =
                                          [engine |-> "outguess", password |-> self.password,
                                           secret |-> secret_data]]
                         /\ call' = made
                         /\ ret' = [NoRet EXCEPT !.op = "embed_with_outguess", !.ok = TRUE,
                                                 !.msg = "Embedding successful using OutGuess"]
                    ELSE /\ UNCHANGED <<fs, written>>
                         /\ \E stderr \in Stderrs :
                              /\ call' = [made EXCEPT !.stderr = stderr]
                              /\ ret' = [NoRet EXCEPT !.op = "embed_with_outguess",
                                                      !.msg = "OutGuess failed",
                                                      !.diag = ErrorMsg(stderr)]

(* embed: OutGuess when the object found it, the fallback otherwise. *)
Embed(self, cover_path, secret_data, output_path) ==
    IF self.use_outguess
    THEN \E run \in ToolRuns :
            EmbedWithOutguess(self, cover_path, secret_data, output_path, run)
    ELSE EmbedFallback(self, cover_path, secret_data, output_path)

(* A caller invokes stego.embed(cover_path, secret_data, output_path). *)
EmbedCall ==
    /\ pc = "idle"
    /\ stego.live
    /\ embeds < MaxEmbeds
    /\ \E cover_path \in Paths, secret_data \in Secrets, output_path \in Paths :
          call' = [NoCall EXCEPT !.op = "embed", !.cover_path = cover_path,
                                 !.secret = secret_data, !.output_path = output_path]
    /\ ret' = NoRet
    /\ pc' = "embed"
    /\ embeds' = embeds + 1
    /\ UNCHANGED <<fs, tmp, outguess, stego, rng, loop, written>>

(* The body of embed, run on the arguments of the call. *)
EmbedBody ==
    /\ pc = "embed"
    /\ Embed(stego, call.cover_path, call.secret, call.output_path)
    /\ UNCHANGED <<outguess, stego, loop, embeds>>

(* ------------------------------------------------------------------ *)
(* extract_fallback: the part before the alignment loop, then one      *)
(* action per pass of `for offset in range(8)`, then the return after  *)
(* the loop.                                                           *)
(* ------------------------------------------------------------------ *)
(* `if data:` -- a bytes value is true when it is not None and not empty. *)
Truthy(data) == data.some /\ Len(data.data) > 0

ExtractFallbackBegin(self, stego_path) ==
    LET img == fs[stego_path]
        available_bits == img.w * img.h * CHANNELS
        seed32 == SeedMod32(self.seed)
        seeded == NpRandomSeed(rng, seed32)
        indices == RngPermutation(seeded, available_bits)
        extracted_bits == ReadBits(img.px, indices)
        error_corrected_bits == EccDecode(extracted_bits)
        made == [NoCall EXCEPT !.op = "extract_fallback", !.stego_path = stego_path]
    IN /\ tmp' = tmp
       /\ IF ~img.exists
          THEN /\ ret' = [NoRet EXCEPT !.op = "extract_fallback",
                                       !.msg = "Fallback extraction failed"]
               /\ call' = made
               /\ pc' = "idle"
               /\ UNCHANGED <<rng, loop>>
          ELSE /\ rng' = RngAdvance(seeded)
               /\ pc' = "align"
               /\ loop' = [extracted_bits |-> extracted_bits,
                           ec_bits |-> error_corrected_bits, offset |-> 0]
               /\ call' = [made EXCEPT !.indices = indices, !.seed32 = seed32]
               /\ ret' = NoRet

ExtractFallbackTry ==
    /\ pc = "align"
    /\ loop.offset < NUM_OFFSETS
    /\ LET extracted == BytesAt(loop.ec_bits, loop.offset)
           data == ExtractData(stego.key, extracted)
       IN /\ call' = [call EXCEPT !.raw = extracted, !.data = data,
                         !.tried = Append(@, [offset |-> loop.offset, data |-> data])]
          /\ IF Truthy(data)
             THEN /\ ret' = [NoRet EXCEPT !.op = "extract_fallback", !.ok = TRUE,
                                !.data = data, !.msg = "Fallback extraction successful"]
                  /\ pc' = "idle"
                  /\ loop' = NoLoop
             ELSE /\ loop' = [loop EXCEPT !.offset = @ + 1]
                  /\ UNCHANGED <<ret, pc>>
    /\ UNCHANGED <<fs, tmp, outguess, stego, rng, embeds, written>>

ExtractFallbackExhausted ==
    /\ pc = "align"
    /\ loop.offset = NUM_OFFSETS
    /\ ret' = [NoRet EXCEPT !.op = "extract_fallback",
                            !.msg = "No valid data found in fallback extraction"]
    /\ pc' = "idle"
    /\ loop' = NoLoop
    /\ UNCHANGED <<fs, tmp, outguess, stego, rng, embeds, written, call>>

(* ------------------------------------------------------------------ *)
(* extract_with_outguess.  What the tool writes to its output file is  *)
(* opaque to the program: the bytes hidden in the image under this     *)
(* password, or any other byte string.                                 *)
(* ------------------------------------------------------------------ *)
ExtractRuns == ToolRuns \cup {"exit0_unreadable"}

Envelope(key, plaintext) == IvA \o CbcEncrypt(key, IvA, Pad(plaintext), 1)

(* Byte strings that fail _extract_data at each of its checks in turn,
   and two that pass: a frame followed by spare plaintext, an empty frame. *)
Crafted(key) ==
    {<<>>,
     SubSeq(IvA, 1, IV_LEN - 1),
     IvA,
     IvA \o <<1, 2, 3, 4, 5>>,
     IvA \o CbcEncrypt(key, IvA, [i \in 1..BLOCK_SIZE |-> 32], 1),
     Envelope(key, <<97, 98, 99>>),
     Envelope(key, PackU32(100) \o Crc32(Hi) \o Hi),
     Envelope(key, PackU32(2) \o <<0, 0, 0, 0>> \o Hi),
     Envelope(key, PackU32(2) \o Crc32(Hi) \o Hi \o <<9, 9>>),
     PrepareData(key, IvA, <<>>)}

ToolOutputs(self, img) ==
    {<<>>,
     IvA \o <<1, 2, 3, 4, 5>>,
     Envelope(self.key, PackU32(2) \o <<0, 0, 0, 0>> \o Hi),
     PrepareData(self.key, IvA, <<>>)}
    \cup (IF img.exists /\ img.og # <<>> /\ img.og[1] = self.password
          THEN {img.og[2]} ELSE {})

ExtractWithOutguess(self, stego_path, run, extracted) ==
    LET img == fs[stego_path]
        data_path == FreshTmp
        data == ExtractData(self.key, extracted)
        made == [NoCall EXCEPT !.op = "extract_with_outguess", !.tool = run,
                               !.stego_path = stego_path, !.tmp_made = data_path,
                               !.tool_runs = 1]
    IN /\ run \in {"exit0", "exit0_unreadable"} => img.exists
       /\ run \in {"raise", "exit0_unreadable"} => Cardinality(tmp) < MaxTmpFiles
       /\ pc' = "idle"
       /\ UNCHANGED <<rng, loop>>
       /\ IF run \in {"raise", "exit0_unreadable"}
          THEN \* the except clause returns; the file made above is still there
               /\ tmp' = tmp \cup {data_path}
               /\ call' = made
               /\ ret' = [NoRet EXCEPT !.op = "extract_with_outguess",
                                       !.msg = "OutGuess error"]
          ELSE /\ tmp' = (tmp \cup {data_path}) \ {data_path}
               /\ IF run = "nonzero"
                  THEN \E stderr \in Stderrs :
                         /\ call' = [made EXCEPT !.stderr = stderr]
                         /\ ret' = [NoRet EXCEPT !.op = "extract_with_outguess",
                                                 !.msg = "OutGuess extraction failed",
                                                 !.diag = ErrorMsg(stderr)]
                  ELSE /\ call' = [made EXCEPT !.raw = extracted, !.data = data,
                                     !.tried = <<[offset |-> 0, data |-> data]>>]
                       /\ IF Truthy(data)
                          THEN ret' = [NoRet EXCEPT !.op = "extract_with_outguess",
                                          !.ok = TRUE, !.data = data,
                                          !.msg = "Extraction successful using OutGuess"]
                          ELSE ret' = [NoRet EXCEPT !.op = "extract_with_outguess",
                                          !.msg = "Extracted data is invalid or corrupted"]

(* extract: OutGuess when the object found it, the fallback otherwise. *)
Extract(self, stego_path) ==
    IF self.use_outguess
    THEN \E run \in ExtractRuns :
           IF run = "exit0"
           THEN \E extracted \in ToolOutputs(self, fs[stego_path]) :
                   ExtractWithOutguess(self, stego_path, run, extracted)
           ELSE ExtractWithOutguess(self, stego_path, run, <<>>)
    ELSE ExtractFallbackBegin(self, stego_path)

(* A caller invokes stego.extract(stego_path). *)
ExtractCall ==
    /\ pc = "idle"
    /\ stego.live
    /\ \E stego_path \in Paths :
          call' = [NoCall EXCEPT !.op = "extract", !.stego_path = stego_path]
    /\ ret' = NoRet
    /\ pc' = "extract"
    /\ UNCHANGED <<fs, tmp, outguess, stego, rng, loop, embeds, written>>

(* The body of extract, up to its return or to the alignment loop. *)
ExtractBody ==
    /\ pc = "extract"
    /\ Extract(stego, call.stego_path)
    /\ UNCHANGED <<fs, outguess, stego, embeds, written>>

(* ------------------------------------------------------------------ *)
(* embed_menu: the cover must exist, the quality is clamped, a new     *)
(* object is made from the password and embed is called on it.         *)
(* ------------------------------------------------------------------ *)
Max(a, b) == IF a >= b THEN a ELSE b
Min(a, b) == IF a <= b THEN a ELSE b

(* quality = max(75, min(95, quality)) *)
ClampQuality(quality) == Max(MIN_QUALITY, Min(MAX_QUALITY, quality))

EmbedMenu ==
    /\ pc = "idle"
    /\ embeds < MaxEmbeds
    /\ \E cover_path \in Paths, secret_data \in Secrets, output_path \in Paths,
          args \in MenuArgs :
          /\ fs[cover_path].exists
          /\ stego' = NewObject(args[1], ClampQuality(args[2]), outguess)
          /\ call' = [NoCall EXCEPT !.op = "embed", !.cover_path = cover_path,
                                    !.secret = secret_data, !.output_path = output_path]
    /\ ret' = NoRet
    /\ pc' = "embed"
    /\ embeds' = embeds + 1
    /\ UNCHANGED <<fs, tmp, outguess, rng, loop, written>>

Next ==
    \/ ConstructCall
    \/ EmbedCall
    \/ EmbedMenu
    \/ EmbedBody
    \/ ExtractCall
    \/ ExtractBody
    \/ ExtractFallbackTry
    \/ ExtractFallbackExhausted

Spec == Init /\ [][Next]_vars

(* ------------------------------------------------------------------ *)
(* The framer on its own: _prepare_data and _extract_data called on an *)
(* object, the latter on what the former made, on damaged copies of it *)
(* and on the crafted byte strings.                                    *)
(* ------------------------------------------------------------------ *)
Seven == <<1, 2, 3, 4, 5, 6, 7>>
FramerSecrets == {<<>>, Hi, Seven, Eight}

Damaged(prepared) ==
    IF Len(prepared) = 0 THEN {}
    ELSE {prepared,
          SubSeq(prepared, 1, Len(prepared) - 1),
          SubSeq(prepared, 1, Len(prepared) - BLOCK_SIZE),
          [prepared EXCEPT ![Len(prepared)] = (@ + 1) % 256],
          [prepared EXCEPT ![1] = (@ + 1) % 256],
          [prepared EXCEPT ![IV_LEN] = (@ + 128) % 256]}

PrepareDataCall ==
    /\ pc = "idle"
    /\ stego.live
    /\ \E secret_data \in FramerSecrets, iv \in IVs :
          call' = [NoCall EXCEPT !.op = "_prepare_data", !.secret = secret_data, !.iv = iv,
                                 !.prepared = PrepareData(stego.key, iv, secret_data)]
    /\ ret' = [NoRet EXCEPT !.op = "_prepare_data", !.ok = TRUE]
    /\ UNCHANGED <<fs, tmp, outguess, stego, rng, pc, loop, embeds, written>>

ExtractDataCall ==
    /\ pc = "idle"
    /\ stego.live
    /\ \E raw_data \in Crafted(stego.key) \cup Damaged(call.prepared) :
          LET data == ExtractData(stego.key, raw_data)
          IN /\ call' = [call EXCEPT !.op = "_extract_data", !.raw = raw_data,
                                     !.data = data]
             /\ ret' = [NoRet EXCEPT !.op = "_extract_data", !.ok = ~data.raised,
                                     !.data = data]
    /\ UNCHANGED <<fs, tmp, outguess, stego, rng, pc, loop, embeds, written>>

FramerNext ==
    \/ ConstructCall
    \/ PrepareDataCall
    \/ ExtractDataCall

FramerSpec == Init /\ [][FramerNext]_vars

(* ------------------------------------------------------------------ *)
(* Properties                                                          *)
(* ------------------------------------------------------------------ *)
Slots(img) == img.w * img.h * CHANNELS

IsEmbedReturn == pc = "idle" /\ call.op \in {"embed_fallback", "embed_with_outguess"}

IsFallbackExtractReturn == pc = "idle" /\ ret.op = "extract_fallback"

(* C1: round trip.  When extract_fallback returns from a carrier that
   embed_fallback wrote with payload B under the password of the extracting
   object, and 8*(len(B)+24)*2 <= N, the value returned is exactly B. *)
C1_RoundTrip ==
    (/\ IsFallbackExtractReturn
     /\ written[call.stego_path].engine = "fallback"
     /\ written[call.stego_path].password = stego.password
     /\ 8 * (Len(written[call.stego_path].secret) + 24) * 2 <= Slots(fs[call.stego_path]))
    => (ret.ok /\ ret.data = Payload(written[call.stego_path].secret))

(* D is the payload of a frame that raw_data decrypts to under key: the
   plaintext after unpadding starts with len(D) and CRC32(D) as big-endian
   u32 and continues with D. *)
Validated(key, raw_data, D) ==
    /\ Len(raw_data) >= IV_LEN
    /\ LET dec == AesDecrypt(key, SubSeq(raw_data, 1, IV_LEN),
                             SubSeq(raw_data, IV_LEN + 1, Len(raw_data)))
       IN /\ dec.ok
          /\ Len(dec.val) >= HEADER_LEN + Len(D)
          /\ SubSeq(dec.val, 1, 4) = PackU32(Len(D))
          /\ SubSeq(dec.val, 5, 8) = Crc32(D)
          /\ SubSeq(dec.val, HEADER_LEN + 1, HEADER_LEN + Len(D)) = D

(* C2: extraction never returns unvalidated bytes.  Every value that
   _extract_data produced inside extract_fallback or extract_with_outguess
   is either a payload validated against the bytes it was decoded from or
   the no-payload value, and the call returns either that validated payload
   or the no-payload value. *)
C2_OnlyValidatedBytes ==
    call.op \in {"extract_fallback", "extract_with_outguess"} =>
        /\ \A i \in 1..Len(call.tried) :
              call.tried[i].data = NoPayload
              \/ (call.tried[i].data.some /\ ~call.tried[i].data.raised)
        /\ IF call.data.some
           THEN Validated(stego.key, call.raw, call.data.data)
           ELSE call.data = NoPayload
        /\ IF ret.ok
           THEN ret.data.some /\ ret.data = call.data
           ELSE ret.data = NoPayload

(* C2 witness: extract_fallback has returned a payload. *)
C2_Witness ==
    /\ IsFallbackExtractReturn
    /\ ret.ok
    /\ ret.data.some
    /\ Len(ret.data.data) > 0

(* C3: capacity boundary.  When embed_fallback returns for a cover that
   opened, it failed with the capacity error, reporting the needed and the
   available bit counts and leaving every file as it was, if
   2*8*len(rawBytes) > N; and it did not fail with the capacity error if
   2*8*len(rawBytes) <= N. *)
C3_CapacityBoundary ==
    (/\ pc = "idle"
     /\ call.op = "embed_fallback"
     /\ call.fs_before[call.cover_path].exists)
    => LET N == Slots(call.fs_before[call.cover_path])
           needed == ECC_REPEAT * BYTE_BITS * Len(call.prepared)
       IN IF needed > N
          THEN /\ ~ret.ok
               /\ ret.msg = "Insufficient capacity"
               /\ ret.needed = needed
               /\ ret.available = N
               /\ fs = call.fs_before
               /\ call.after = <<>>
          ELSE ret.msg # "Insufficient capacity"

(* C3 witness: embed_fallback has failed its capacity check. *)
C3_Witness ==
    /\ pc = "idle"
    /\ call.op = "embed_fallback"
    /\ ret.msg = "Insufficient capacity"
    /\ ret.needed > ret.available
    /\ fs = call.fs_before

(* C4: wrong password.  When extract_fallback returns from a carrier that
   embed_fallback wrote under a password other than the extracting
   object's, it returns the not-found outcome and no payload. *)
C4_WrongPassword ==
    (/\ IsFallbackExtractReturn
     /\ written[call.stego_path].engine = "fallback"
     /\ written[call.stego_path].password # stego.password)
    => (/\ ~ret.ok
        /\ ret.data = NoPayload
        /\ ret.msg = "No valid data found in fallback extraction")

(* C4 witness: an extraction under another password than the embedding's
   has run through the carrier and returned. *)
C4_Witness ==
    /\ IsFallbackExtractReturn
    /\ written[call.stego_path].engine = "fallback"
    /\ written[call.stego_path].password # stego.password
    /\ Len(written[call.stego_path].secret) > 0
    /\ Len(call.tried) = NUM_OFFSETS

(* C5: envelope wire format and framer round trip.  What _prepare_data
   returned for payload B is the 16-byte IV followed by a ciphertext whose
   length is the smallest multiple of 16 strictly greater than 8+len(B);
   the ciphertext decrypts and unpads to len(B) || CRC32(B) || B; and
   _extract_data of it is B. *)
C5_WireFormat ==
    call.op = "_prepare_data" =>
        LET B == call.secret
            out == call.prepared
            iv == SubSeq(out, 1, IV_LEN)
            ct == SubSeq(out, IV_LEN + 1, Len(out))
        IN /\ Len(out) >= IV_LEN
           /\ iv = call.iv
           /\ Len(ct) % BLOCK_SIZE = 0
           /\ Len(ct) > HEADER_LEN + Len(B)
           /\ Len(ct) - BLOCK_SIZE <= HEADER_LEN + Len(B)
           /\ AesDecrypt(stego.key, iv, ct) = Ok(PackU32(Len(B)) \o Crc32(B) \o B)
           /\ ExtractData(stego.key, out) = Payload(B)

(* C5 witness: _prepare_data has framed a payload whose header and bytes
   fill a block exactly, so that padding adds a whole block. *)
C5_Witness ==
    /\ call.op = "_prepare_data"
    /\ (HEADER_LEN + Len(call.secret)) % BLOCK_SIZE = 0
    /\ Len(call.prepared) = IV_LEN + 2 * BLOCK_SIZE

(* Why raw_data is not an envelope of a frame under key, by the first
   check that fails; "none" when it is. *)
FailureCause(key, raw_data) ==
    IF Len(raw_data) < IV_LEN THEN "short input"
    ELSE LET ct == SubSeq(raw_data, IV_LEN + 1, Len(raw_data))
             plain == CbcDecrypt(key, SubSeq(raw_data, 1, IV_LEN), ct)
             un == Unpad(plain.val)
             length == un.val[3] * 256 + un.val[4]
         IN IF Len(ct) = 0 \/ Len(ct) % BLOCK_SIZE # 0 THEN "ciphertext length"
            ELSE IF ~un.ok THEN "malformed padding"
            ELSE IF Len(un.val) < HEADER_LEN THEN "short plaintext"
            ELSE IF un.val[1] # 0 \/ un.val[2] # 0 \/ length > Len(un.val) - HEADER_LEN
                 THEN "declared length"
            ELSE IF Crc32(SubSeq(un.val, HEADER_LEN + 1, HEADER_LEN + length))
                      # SubSeq(un.val, 5, 8)
                 THEN "checksum"
            ELSE "none"

(* C6: uniform decode failure.  Whatever the cause for which its input is
   not an envelope of a frame, _extract_data returned the one no-payload
   value and did not raise. *)
C6_UniformFailure ==
    (call.op = "_extract_data" /\ FailureCause(stego.key, call.raw) # "none")
    => (/\ call.data = NoPayload
        /\ ret.data = NoPayload
        /\ ret.ok)

(* C6 witness: _extract_data has returned for an input whose padding is
   malformed. *)
C6_Witness ==
    /\ call.op = "_extract_data"
    /\ FailureCause(stego.key, call.raw) = "malformed padding"
    /\ call.data = NoPayload

(* C7: permutation determinism.  The index sequence a fallback call used
   is a bijection on 0..N-1 and is the value of one function of
   (seed mod 2^32, N), whatever calls came before it. *)
C7_PermutationDeterminism ==
    call.indices # <<>> =>
        LET N == Len(call.indices)
            image == IF call.op = "embed_fallback"
                     THEN call.fs_before[call.cover_path]
                     ELSE fs[call.stego_path]
        IN /\ N = Slots(image)
           /\ call.indices
                = RngPermutation(RngSeed(SeedMod32(DeriveSeed(stego.password))), N)
           /\ {call.indices[p] : p \in 1..N} = 0..(N - 1)

(* C7 witness: an extraction under one password has drawn its permutation
   after an embedding under another password drew its own. *)
C7_Witness ==
    /\ call.op = "extract_fallback"
    /\ call.indices # <<>>
    /\ written[call.stego_path].engine = "fallback"
    /\ written[call.stego_path].password # stego.password

(* C8: scratch-storage cleanup.  When embed_with_outguess or
   extract_with_outguess has returned, the temporary file it created no
   longer exists. *)
C8_TempFileRemoved ==
    (/\ pc = "idle"
     /\ call.op \in {"embed_with_outguess", "extract_with_outguess"})
    => call.tmp_made \notin tmp

(* C9: embedding does not mutate the cover.  When an embed call has
   returned, the file at its cover path is what it was before the call. *)
C9_CoverUnchanged ==
    IsEmbedReturn => fs[call.cover_path] = call.fs_before[call.cover_path]

(* C10: alignment search order.  extract_fallback tries the offsets
   0, 1, ... in ascending order and at most 8 of them; an offset whose
   bytes decode to a valid frame is the last one tried and its payload is
   returned; the not-found outcome is returned only after 8 failed tries. *)
C10_AlignmentOrder ==
    call.op = "extract_fallback" =>
        /\ Len(call.tried) <= NUM_OFFSETS
        /\ \A i \in 1..Len(call.tried) : call.tried[i].offset = i - 1
        /\ \A i \in 1..Len(call.tried) :
              call.tried[i].data.some =>
                 /\ i = Len(call.tried)
                 /\ pc = "idle"
                 /\ ret.ok
                 /\ ret.data = call.tried[i].data
        /\ (pc = "idle" /\ ~ret.ok /\ fs[call.stego_path].exists) =>
              /\ Len(call.tried) = NUM_OFFSETS
              /\ \A i \in 1..NUM_OFFSETS : ~call.tried[i].data.some

IsToolFailureReturn ==
    /\ pc = "idle"
    /\ call.op \in {"embed_with_outguess", "extract_with_outguess"}
    /\ call.tool = "nonzero"

(* diag is text with the white space at its two ends removed. *)
IsStripped(diag, text) ==
    /\ \E a, b \in 0..Len(text) :
          /\ a + b <= Len(text)
          /\ diag = SubSeq(text, a + 1, Len(text) - b)
          /\ \A i \in 1..a : text[i] \in Whitespace
          /\ \A i \in (Len(text) - b + 1)..Len(text) : text[i] \in Whitespace
    /\ Len(diag) > 0 => (diag[1] \notin Whitespace /\ diag[Len(diag)] \notin Whitespace)

(* C11: collaborator failure.  When the tool has exited with a non-zero
   status, embed_with_outguess / extract_with_outguess returned failure and
   no payload, with the failure message and the text the tool wrote to
   stderr (stripped; a fixed text when it wrote nothing); the tool was run
   once, the fallback engine did nothing and no file was written. *)
C11_CollaboratorFailure ==
    IsToolFailureReturn =>
        /\ ret.op = call.op
        /\ ~ret.ok
        /\ ret.data = NoPayload
        /\ ret.msg = (IF call.op = "embed_with_outguess"
                      THEN "OutGuess failed" ELSE "OutGuess extraction failed")
        /\ IF Len(call.stderr) = 0
           THEN ret.diag = UnknownError
           ELSE IsStripped(ret.diag, call.stderr)
        /\ call.tool_runs = 1
        /\ call.indices = <<>>
        /\ call.after = <<>>
        /\ call.tried = <<>>
        /\ call.op = "embed_with_outguess" => fs = call.fs_before

(* C11 witness: a call has returned after the tool exited non-zero and
   wrote a diagnostic, which the result carries. *)
C11_Witness ==
    /\ IsToolFailureReturn
    /\ ret.diag = <<"b", "a", "d">>
    /\ Len(call.stderr) > Len(ret.diag)

(* C12: output quality range.  When embed_fallback has saved the stego
   image, the quality it saved it with lies in [75, 95]. *)
C12_QualityRange ==
    (pc = "idle" /\ call.op = "embed_fallback" /\ ret.ok)
    => (call.quality >= MIN_QUALITY /\ call.quality <= MAX_QUALITY)

IsFallbackEmbedDone == pc = "idle" /\ call.op = "embed_fallback" /\ ret.ok

(* The length of the redundancy-coded bitstream of the call's envelope. *)
BitstreamLen == ECC_REPEAT * BYTE_BITS * Len(call.prepared)

(* C13: write footprint.  After embed_fallback's write loop, with L the
   bitstream length, the slots Permutation[0..L-1] are L different slots
   and differ from the cover's at most in bit 1; every other slot has the
   cover's value. *)
C13_WriteFootprint ==
    IsFallbackEmbedDone =>
        LET before == call.fs_before[call.cover_path].px
            N == Len(before)
            L == BitstreamLen
            touched == {call.indices[p] + 1 : p \in 1..L}
        IN /\ L <= N
           /\ Len(call.after) = N
           /\ Cardinality(touched) = L
           /\ \A i \in 1..N :
                 IF i \in touched
                 THEN /\ call.after[i] \div 4 = before[i] \div 4
                      /\ call.after[i] % 2 = before[i] % 2
                 ELSE call.after[i] = before[i]

(* C13 witness: a write loop has changed some slot and the bitstream was
   shorter than the carrier. *)
C13_Witness ==
    /\ IsFallbackEmbedDone
    /\ BitstreamLen < Len(call.after)
    /\ \E i \in 1..Len(call.after) :
          call.after[i] # call.fs_before[call.cover_path].px[i]

(* Bit k (from 0) of a byte string, most significant bit of each byte first. *)
RawBit(raw_bytes, k) ==
    (raw_bytes[(k \div BYTE_BITS) + 1] \div Pow2(BYTE_BITS - 1 - (k % BYTE_BITS))) % 2

(* C14: bit placement.  After embed_fallback's write loop, bit 1 of slot
   Permutation[i] is bitstream[i] for every i < L, with bitstream[2k] =
   bitstream[2k+1] = bit k of rawBytes; and reading every slot in
   permutation order, OR-decoding the pairs and grouping from offset 0
   gives bytes that begin with rawBytes. *)
C14_BitPlacement ==
    IsFallbackEmbedDone =>
        LET raw_bytes == call.prepared
            L == BitstreamLen
            decoded == EccDecode(ReadBits(call.after, call.indices))
            grouped == BytesAt(decoded, 0)
        IN /\ \A i \in 0..(L - 1) :
                 SecondLsb(call.after[call.indices[i + 1] + 1])
                    = RawBit(raw_bytes, i \div ECC_REPEAT)
           /\ Len(grouped) >= Len(raw_bytes)
           /\ \A j \in 1..Len(raw_bytes) : grouped[j] = raw_bytes[j]

(* C14 witness: a write loop has placed a bitstream that fills the
   carrier, an envelope of three blocks. *)
C14_Witness ==
    /\ IsFallbackEmbedDone
    /\ BitstreamLen = Len(call.after)
    /\ Len(call.prepared) = IV_LEN + 2 * BLOCK_SIZE
    /\ call.secret = Eight

(* C15: success for every validated frame.  Whenever _extract_data has
   returned a payload inside extract_fallback or extract_with_outguess, of
   whatever length, the call returns that payload as a success and not the
   'no valid data' or 'invalid or corrupted' outcome. *)
C15_ValidatedFrameReported ==
    call.op \in {"extract_fallback", "extract_with_outguess"} =>
        \A i \in 1..Len(call.tried) :
            call.tried[i].data.some =>
                /\ pc = "idle"
                /\ ret.ok
                /\ ret.data = call.tried[i].data
                /\ ret.msg \notin {"No valid data found in fallback extraction",
                                   "Extracted data is invalid or corrupted"}

(* C16: redundancy decoding.  Inside extract_fallback's loop, the raw bits
   are N bits, bit 1 of every slot in permutation order; the decoded bits
   are floor(N/2) bits, the k-th being 1 exactly when at least one bit of
   the k-th pair of raw bits is 1. *)
C16_RedundancyDecoding ==
    pc = "align" =>
        LET image == fs[call.stego_path]
            N == Slots(image)
            raw_bits == loop.extracted_bits
        IN /\ Len(call.indices) = N
           /\ Len(raw_bits) = N
           /\ \A p \in 1..N : raw_bits[p] = (image.px[call.indices[p] + 1] \div 2) % 2
           /\ Len(loop.ec_bits) = N \div 2
           /\ \A k \in 1..(N \div 2) :
                 loop.ec_bits[k]
                    = (IF raw_bits[2 * k - 1] = 1 \/ raw_bits[2 * k] = 1 THEN 1 ELSE 0)

(* C16 witness: a carrier with an odd number of slots has been read, and
   a pair of unequal raw bits decoded to 1. *)
C16_Witness ==
    /\ pc = "align"
    /\ Len(loop.extracted_bits) % 2 = 1
    /\ 2 * Len(loop.ec_bits) = Len(loop.extracted_bits) - 1
    /\ \E k \in 1..Len(loop.ec_bits) :
          /\ loop.extracted_bits[2 * k - 1] # loop.extracted_bits[2 * k]
          /\ loop.ec_bits[k] = 1

(* C17: seed derivation.  The seed a fallback call handed to the
   permutation generator is four bytes, bytes 4..7 of SHA-256(password):
   the first 8 digest bytes read big-endian, modulo 2^32.  It is the same
   in embed_fallback and extract_fallback, being a function of the
   password, the empty one included. *)
C17_SeedDerivation ==
    call.indices # <<>> =>
        /\ call.op \in {"embed_fallback", "extract_fallback"}
        /\ Len(call.seed32) = 4
        /\ \A i \in 1..4 : call.seed32[i] \in Byte
        /\ Len(stego.seed) = SEED_LEN
        /\ stego.seed = SubSeq(Sha256(stego.password), 1, SEED_LEN)
        /\ \A i \in 1..4 : call.seed32[i] = Sha256(stego.password)[4 + i]

(* C17 witness: extract_fallback has seeded the generator on an object
   made with the empty password. *)
C17_Witness ==
    /\ call.op = "extract_fallback"
    /\ call.indices # <<>>
    /\ stego.password = <<>>
    /\ Len(call.seed32) = 4

(* C18: the whole-carrier read.  The byte stream extract_fallback tried
   at offset o has floor((floor(N/2) - o) / 8) bytes; _extract_data
   returned a payload for it only if that count less 16 is a positive
   multiple of 16 and the bytes after the first 16, decrypted with the
   first 16 as IV, end in valid PKCS7 padding. *)
C18_WholeCarrierRead ==
    (call.op = "extract_fallback" /\ Len(call.tried) > 0) =>
        LET N == Slots(fs[call.stego_path])
            o == call.tried[Len(call.tried)].offset
            count == Len(call.raw)
            iv == SubSeq(call.raw, 1, IV_LEN)
            ct == SubSeq(call.raw, IV_LEN + 1, count)
        IN /\ count = ((N \div 2) - o) \div BYTE_BITS
           /\ call.tried[Len(call.tried)].data = call.data
           /\ call.data.some =>
                 /\ count - IV_LEN > 0
                 /\ (count - IV_LEN) % BLOCK_SIZE = 0
                 /\ CbcDecrypt(stego.key, iv, ct).ok
                 /\ Unpad(CbcDecrypt(stego.key, iv, ct).val).ok

(* C18 witness: a payload has been returned at offset 0 for a byte stream
   that is the whole carrier: 48 bytes from 768 slots. *)
C18_Witness ==
    /\ call.op = "extract_fallback"
    /\ Len(call.tried) = 1
    /\ call.data.some
    /\ Len(call.data.data) = 8
    /\ Len(call.raw) = IV_LEN + 2 * BLOCK_SIZE
    /\ Len(call.raw) * BYTE_BITS * ECC_REPEAT = Slots(fs[call.stego_path])

====
